---- MODULE Spec2Model ----
(***************************************************************************)
(* Credential and session lifecycle of the hireease backend: the account   *)
(* store, register / login, bearer-token authentication, the password      *)
(* reset flow (forgot-password, verify-reset-code, reset-password),        *)
(* change-password, account deletion, the admin gate of the vehicle        *)
(* catalog, and the error handler.                                         *)
(*                                                                         *)
(* Every HTTP request occupies a slot of reqs.  A handler is cut into one  *)
(* action per store access: the code between two awaits on the store runs  *)
(* without interleaving (single-threaded event loop), the store accesses   *)
(* of different requests interleave freely.                                *)
(***************************************************************************)
EXTENDS Integers, Sequences, FiniteSets, TLC

----------------------------------------------------------------------------
(* Bounds of the model *)

MaxReq == 2      \* request slots: requests in flight at the same time
MaxOps == 3      \* requests issued in one behaviour
MaxTime == 3     \* clock ticks
MaxUsers == 2    \* accounts ever created
MaxContacts == 1 \* emergency contacts of one account

(* Program constants, in clock ticks *)

ResetWindow == 2         \* 15 * 60 * 1000 ms
VerificationWindow == 4  \* 30 * 60 * 1000 ms
ResetTokenWindow == 8    \* 60 * 60 * 1000 ms
TokenLifetime == 3       \* JWT_EXPIRES_IN, default '7d'

----------------------------------------------------------------------------
(* Input domains *)

RawEmails == {"a@x.com", "A@x.com", "b@x.com"}
BadEmail == "not-an-email"
Passwords == {"secret1", "secret2"}
ShortPassword == "short"
Codes == {"100001", "100002"}
BadCode == "12ab"
Slots == 1..MaxReq

\* the credentials scripts/createAdmin.ts gives the admin account
AdminEmail == "admin@vehiclerental.com"
AdminPassword == "admin123456"

VARIABLES
    store,      \* the users collection: _id -> document
    nextId,     \* next _id the store assigns
    now,        \* Date.now()
    env,        \* process.env
    reqs,       \* slot -> request in flight
    done,       \* the request answered last, with its response
    ops,        \* number of requests the behaviour may still issue
    conc,       \* how many requests may be in flight together
    held,       \* the bearer token the client keeps from earlier responses
    secretOf,   \* history: _id -> plaintext secret last persisted
    issued,     \* history: _id -> the code forgot-password persisted last, the
                \*          time it was drawn, and the code persisted before it
    consumed,   \* history: _id -> code used by a successful reset-password, "" if none
    changedAt,  \* history: _id -> time of the last change of the stored secret
    vehicles    \* the vehicles collection

vars == <<store, nextId, now, env, reqs, done, ops, conc, held, secretOf, issued, consumed,
          changedAt, vehicles>>

----------------------------------------------------------------------------
(* Values *)

Undefined == [alg |-> "undefined", text |-> ""]
NoDate == -1
NoUser == <<>>

\* String setters of the schema: trim (inputs carry no blanks) and lowercase
lowercase(e) == IF e = "A@x.com" THEN "a@x.com" ELSE e

\* express-validator isEmail() over the input domain
isEmail(e) == e \in RawEmails \cup {AdminEmail}

\* /^\d{6}$/ over the input domain
isSixDigits(c) == c \in Codes

\* crypto.createHash('sha256').update(code).digest('hex')
sha256(c) == [alg |-> "sha256", text |-> c]

\* a password value as the document holds it: depth 0 is cleartext,
\* depth n > 0 is the cleartext put through bcrypt.hash n times
Plain(p) == [depth |-> 0, text |-> p]
bcryptHash(v) == [depth |-> v.depth + 1, text |-> v.text]
bcryptCompare(candidate, hash) == hash.depth = 1 /\ hash.text = candidate

----------------------------------------------------------------------------
(* utils/errors.ts and middleware/errorHandler.ts *)

AppError(class, message, statusCode) ==
    [class |-> class, name |-> "Error", message |-> message,
     statusCode |-> statusCode, validationErrors |-> FALSE]

ConflictError(message) == AppError("ConflictError", message, 409)
AuthenticationError(message) == AppError("AuthenticationError", message, 401)
ValidationError(message) == AppError("ValidationError", message, 400)

\* new Error(message), statusCode 0 stands for "no statusCode property"
PlainError(name, message) ==
    [class |-> "Error", name |-> name, message |-> message,
     statusCode |-> 0, validationErrors |-> FALSE]

\* handleValidationErrors: Error('Validation failed') with statusCode 400
RequestValidationError ==
    [class |-> "Error", name |-> "Error", message |-> "Validation failed",
     statusCode |-> 400, validationErrors |-> TRUE]

\* what the MongoDB driver throws on a unique index violation
DuplicateKeyError == PlainError("MongoServerError", "E11000 duplicate key error")
\* what Mongoose save() throws when the document is gone
DocumentNotFoundError == PlainError("DocumentNotFoundError", "No document found for query")

AppErrorClasses == {"ValidationError", "ConflictError", "AuthenticationError", "AppError"}

errorStatus(err) ==
    IF err.class \in AppErrorClasses THEN err.statusCode
    ELSE IF err.validationErrors
         THEN (IF err.statusCode # 0 THEN err.statusCode ELSE 400)
    ELSE IF err.name = "ValidationError" THEN 400
    ELSE IF err.name = "CastError" THEN 400
    ELSE 500

errorMessage(err) ==
    IF err.class \in AppErrorClasses THEN err.message
    ELSE IF err.validationErrors
         THEN (IF err.message # "" THEN err.message ELSE "Validation failed")
    ELSE IF err.name = "ValidationError" THEN err.message
    ELSE IF err.name = "CastError" THEN "Invalid data format"
    ELSE IF err.message # "" THEN err.message
    ELSE "Internal Server Error"

\* err.stack: the error's name and message, then the frames
stackOf(err) == <<err.name, err.message, "at">>

errorHandler(err, nodeEnv) ==
    [status |-> errorStatus(err),
     body |-> IF nodeEnv = "development"
              THEN [success |-> FALSE,
                    error |-> [message |-> errorMessage(err),
                               statusCode |-> errorStatus(err)],
                    stack |-> stackOf(err)]
              ELSE [success |-> FALSE,
                    error |-> [message |-> errorMessage(err),
                               statusCode |-> errorStatus(err)]]]

----------------------------------------------------------------------------
(* models/User.ts, the profile variant of the schema *)

\* new User({email, password, ...}) with the schema defaults
newUser(id, email, password, role, verified) ==
    [_id |-> id,
     email |-> lowercase(email),
     password |-> Plain(password),
     role |-> role,
     isEmailVerified |-> verified,
     emailVerificationCode |-> Undefined,
     emailVerificationExpires |-> NoDate,
     resetPasswordCode |-> Undefined,
     resetPasswordExpires |-> NoDate,
     username |-> "",
     emergencyContacts |-> << >>]

Paths == {"email", "password", "role", "isEmailVerified",
          "emailVerificationCode", "emailVerificationExpires",
          "resetPasswordCode", "resetPasswordExpires",
          "username", "emergencyContacts"}

\* this.isModified(path): the value differs from the one loaded
isModified(doc, orig, path) == doc[path] # orig[path]

modifiedPaths(doc, orig) == {p \in Paths : isModified(doc, orig, p)}

\* slip: the hook stores the password as it was assigned
preSaveUnhashed(doc, passwordModified) == doc

\* slip: the hook hashes the password on every save
preSaveRehash(doc, passwordModified) ==
    [doc EXCEPT !.password = bcryptHash(doc.password)]

\* userSchema.pre('save'): hash the password only if it was modified
preSave(doc, passwordModified) ==
    IF ~passwordModified THEN doc
    ELSE [doc EXCEPT !.password = bcryptHash(doc.password)]

\* slip: every candidate is taken for the password
comparePasswordAny(doc, candidate) == TRUE

\* user.comparePassword(candidate)
comparePassword(doc, candidate) == bcryptCompare(candidate, doc.password)

\* slip: the transform returns the document as it is
toJSONWhole(doc) == doc

\* toJSON transform of the profile variant
toJSON(doc) ==
    [f \in DOMAIN doc \ {"password", "emailVerificationCode", "resetPasswordCode"}
        |-> doc[f]]

\* slip: the code itself is stored, not its digest
generateResetCodeUnhashed(doc, code, t) ==
    [doc EXCEPT !.resetPasswordCode = [alg |-> "none", text |-> code],
                !.resetPasswordExpires = t + ResetWindow]

\* slip: a code that is still stored is kept, only the expiry is renewed
generateResetCodeKeepOld(doc, code, t) ==
    [doc EXCEPT !.resetPasswordCode =
                    IF @ = Undefined THEN sha256(code) ELSE @,
                !.resetPasswordExpires = t + ResetWindow]

\* user.generateResetCode() with the drawn 6-digit code
generateResetCode(doc, code, t) ==
    [doc EXCEPT !.resetPasswordCode = sha256(code),
                !.resetPasswordExpires = t + ResetWindow]

----------------------------------------------------------------------------
(* models/User.ts, the numeric-code variant and the token variant of the
   schema, and the verification code of the numeric-code and profile variants *)

ResetTokens == {"9f3a", "c07e"}

\* new User({email, password}) of the numeric-code variant
newUserNumericCode(id, email, password) ==
    [_id |-> id,
     email |-> lowercase(email),
     password |-> Plain(password),
     isEmailVerified |-> FALSE,
     emailVerificationCode |-> Undefined,
     emailVerificationExpires |-> NoDate,
     resetPasswordCode |-> Undefined,
     resetPasswordExpires |-> NoDate]

\* toJSON transform of the numeric-code variant
toJSONNumericCode(doc) == [f \in DOMAIN doc \ {"password"} |-> doc[f]]

\* new User({email, password}) of the token variant
newUserToken(id, email, password) ==
    [_id |-> id,
     email |-> lowercase(email),
     password |-> Plain(password),
     resetPasswordToken |-> Undefined,
     resetPasswordExpires |-> NoDate]

\* toJSON transform of the token variant
toJSONToken(doc) == [f \in DOMAIN doc \ {"password"} |-> doc[f]]

\* user.generateEmailVerificationCode() with the drawn 6-digit code
generateEmailVerificationCode(doc, code, t) ==
    [doc EXCEPT !.emailVerificationCode = sha256(code),
                !.emailVerificationExpires = t + VerificationWindow]

\* user.generateResetToken() with the drawn token
generateResetToken(doc, token, t) ==
    [doc EXCEPT !.resetPasswordToken = sha256(token),
                !.resetPasswordExpires = t + ResetTokenWindow]

\* the variant of the schema a document was built from
schemaOf(doc) ==
    IF "role" \in DOMAIN doc THEN "profile"
    ELSE IF "resetPasswordToken" \in DOMAIN doc THEN "token"
    ELSE "numericCode"

\* JSON.stringify(user): the toJSON transform of the document's schema
\* (a path whose value is undefined is not written by JSON.stringify)
toJSONOf(doc) ==
    IF schemaOf(doc) = "profile" THEN toJSON(doc)
    ELSE IF schemaOf(doc) = "token" THEN toJSONToken(doc)
    ELSE toJSONNumericCode(doc)

----------------------------------------------------------------------------
(* The store *)

idsByEmail(st, e) == {i \in DOMAIN st : st[i].email = e}

\* slip: the filter is matched as typed
findOneByEmailAsTyped(st, email) ==
    LET hit == idsByEmail(st, email)
    IN IF hit = {} THEN NoUser ELSE <<st[CHOOSE i \in hit : TRUE]>>

\* User.findOne({ email }): the filter is cast by the schema (lowercase)
findOneByEmail(st, email) ==
    LET hit == idsByEmail(st, lowercase(email))
    IN IF hit = {} THEN NoUser ELSE <<st[CHOOSE i \in hit : TRUE]>>

\* User.findById(id)
findById(st, id) == IF id \in DOMAIN st THEN <<st[id]>> ELSE NoUser

\* slip: the filter leaves the expiry out
findOneByResetCodeAnyTime(st, email, hashedCode, t) ==
    LET hit == {i \in idsByEmail(st, lowercase(email)) :
                    st[i].resetPasswordCode = hashedCode}
    IN IF hit = {} THEN NoUser ELSE <<st[CHOOSE i \in hit : TRUE]>>

\* User.findOne({ email, resetPasswordCode, resetPasswordExpires: {$gt: now} })
findOneByResetCode(st, email, hashedCode, t) ==
    LET hit == {i \in idsByEmail(st, lowercase(email)) :
                    /\ st[i].resetPasswordCode = hashedCode
                    /\ st[i].resetPasswordExpires # NoDate
                    /\ st[i].resetPasswordExpires > t}
    IN IF hit = {} THEN NoUser ELSE <<st[CHOOSE i \in hit : TRUE]>>

\* the unique index on email
emailTaken(st, e) == idsByEmail(st, e) # {}

\* document.save() of a loaded document: $set of the modified paths
saveUpdate(st, doc, orig) ==
    LET saved == preSave(doc, isModified(doc, orig, "password"))
    IN [st EXCEPT ![doc._id] =
            [p \in DOMAIN st[doc._id] |->
                IF p \in modifiedPaths(saved, orig) THEN saved[p]
                ELSE st[doc._id][p]]]

----------------------------------------------------------------------------
(* utils/jwt.ts and middleware/auth.ts *)

\* jwt.sign({ userId }, secret, { expiresIn })
jwtSign(userId, secret, t) ==
    [userId |-> userId, sig |-> secret, exp |-> t + TokenLifetime]

\* slip: the expiry of the token is not looked at
jwtVerifyIgnoreExpiration(token, secret, t) == token.sig = secret

\* jwt.verify(token, secret) does not throw
jwtVerify(token, secret, t) == token.sig = secret /\ t < token.exp

NoToken == [userId |-> 0, sig |-> "", exp |-> 0]
NoHeader == [scheme |-> "", token |-> NoToken]
Bearer(token) == [scheme |-> "Bearer", token |-> token]

\* slip: a token signed before the last change of the secret is refused
authenticateRevoking(header, st, secret, t) ==
    IF header.scheme # "Bearer"
    THEN [status |-> 401, body |-> [success |-> FALSE, error |-> "No token provided"],
          user |-> NoUser]
    ELSE IF secret = "" \/ ~jwtVerify(header.token, secret, t)
    THEN [status |-> 401, body |-> [success |-> FALSE, error |-> "Invalid or expired token"],
          user |-> NoUser]
    ELSE IF findById(st, header.token.userId) = NoUser
    THEN [status |-> 401, body |-> [success |-> FALSE, error |-> "Invalid token"],
          user |-> NoUser]
    ELSE IF /\ changedAt[header.token.userId] # NoDate
            /\ changedAt[header.token.userId] >= header.token.exp - TokenLifetime
    THEN [status |-> 401, body |-> [success |-> FALSE, error |-> "Invalid or expired token"],
          user |-> NoUser]
    ELSE [status |-> 0, body |-> [success |-> TRUE],
          user |-> findById(st, header.token.userId)]

\* authenticate: the response it sends, status 0 when it calls next()
authenticate(header, st, secret, t) ==
    IF header.scheme # "Bearer"
    THEN [status |-> 401, body |-> [success |-> FALSE, error |-> "No token provided"],
          user |-> NoUser]
    ELSE IF secret = "" \/ ~jwtVerify(header.token, secret, t)
    THEN [status |-> 401, body |-> [success |-> FALSE, error |-> "Invalid or expired token"],
          user |-> NoUser]
    ELSE IF findById(st, header.token.userId) = NoUser
    THEN [status |-> 401, body |-> [success |-> FALSE, error |-> "Invalid token"],
          user |-> NoUser]
    ELSE [status |-> 0, body |-> [success |-> TRUE],
          user |-> findById(st, header.token.userId)]

----------------------------------------------------------------------------
(* Requests *)

NoBody == [success |-> FALSE]

\* body and route parameters of the profile requests
NoArg == [username |-> "", name |-> "", relationship |-> "", phone |-> "", index |-> 0,
          password |-> "", newPassword |-> "", vehicle |-> "", role |-> ""]

\* history of a request, written when it reads the store and never read by
\* a handler:
\*   at          when it read
\*   target      the account its email named (0: none)
\*   cause       why the store holds no live match for the presented code
\*   correct     the presented code is the one forgot-password issued last
\*   stale       the presented code is the one issued before the last one
\*   age         time since the last code was drawn (NoDate: none issued)
\*   replay      the presented code was used by a successful reset-password
\*   again       the request answered just before was a successful
\*               verify-reset-code of the same email and code
\*   secretMatch the presented password is the account's secret
NoHist == [at |-> NoDate, target |-> 0, cause |-> "", correct |-> FALSE,
           stale |-> FALSE, age |-> NoDate, replay |-> FALSE, again |-> FALSE,
           secretMatch |-> FALSE]
NoIssue == [code |-> "", at |-> NoDate, prev |-> ""]

\* no error was passed to next()
NoError == [class |-> "", name |-> "", message |-> "", statusCode |-> 0,
            validationErrors |-> FALSE]

IdleReq ==
    [kind |-> "none", pc |-> "idle", email |-> "", password |-> "",
     code |-> "", header |-> NoHeader, arg |-> NoArg,
     user |-> NoUser, orig |-> NoUser,
     status |-> 0, body |-> NoBody, hist |-> NoHist, err |-> NoError]

InFlight == {s \in Slots : reqs[s].pc # "idle"}
Free == {s \in Slots : reqs[s].pc = "idle"}

\* config/env.ts: the variables the process refuses to start without
requiredEnvVars == {"PORT", "MONGODB_URI"}
validateEnv(e) == \A v \in requiredEnvVars : e[v] # ""

\* the process is up; a new request takes the lowest free slot
CanStart(s) ==
    /\ validateEnv(env)
    /\ ops > 0
    /\ Cardinality(InFlight) < conc
    /\ s \in Free
    /\ \A s2 \in Free : s <= s2

NewReq(kind, email, password, code, header) ==
    [IdleReq EXCEPT !.kind = kind, !.email = email, !.password = password,
                    !.code = code, !.header = header]

\* the response is sent; the documents the handler held are dropped
Respond(r, status, body) ==
    [r EXCEPT !.pc = "done", !.status = status, !.body = body,
              !.user = NoUser, !.orig = NoUser]

\* next(error): the error handler answers; err is history
Fail(r, err) ==
    [Respond(r, errorHandler(err, env.NODE_ENV).status,
                errorHandler(err, env.NODE_ENV).body) EXCEPT !.err = err]

\* the request in slot s continues as r, or is answered and leaves the slot
Place(s, r) ==
    IF r.pc = "done"
    THEN /\ done' = r
         /\ reqs' = [reqs EXCEPT ![s] = IdleReq]
    ELSE /\ reqs' = [reqs EXCEPT ![s] = r]
         /\ UNCHANGED done

\* the client keeps the token of a response, or the one it already has
Keep(token, keep) == held' = IF keep THEN token ELSE held

Tick ==
    /\ now < MaxTime
    /\ now' = now + 1
    /\ UNCHANGED <<store, nextId, env, reqs, done, ops, conc, held, secretOf, changedAt, issued, consumed, vehicles>>

----------------------------------------------------------------------------
(* History helpers *)

targetOf(st, email) ==
    LET hit == idsByEmail(st, lowercase(email))
    IN IF hit = {} THEN 0 ELSE CHOOSE i \in hit : TRUE

codeCause(st, email, code, t) ==
    LET id == targetOf(st, email)
    IN IF id = 0 THEN "noAccount"
       ELSE IF st[id].resetPasswordCode # sha256(code) THEN "wrongCode"
       ELSE IF st[id].resetPasswordExpires <= t THEN "expired"
       ELSE "ok"

Hist(email, password, code) ==
    LET id == targetOf(store, email)
    IN [at |-> now, target |-> id,
        cause |-> codeCause(store, email, code, now),
        correct |-> id # 0 /\ code # "" /\ issued[id].code = code,
        stale |-> id # 0 /\ code # "" /\ issued[id].prev = code /\ issued[id].code # code,
        age |-> IF id # 0 /\ issued[id].at # NoDate THEN now - issued[id].at ELSE NoDate,
        replay |-> id # 0 /\ code # "" /\ consumed[id] = code,
        again |-> /\ done.kind = "verifyResetCode" /\ done.status = 200
                  /\ lowercase(done.email) = lowercase(email) /\ done.code = code,
        secretMatch |-> id # 0 /\ secretOf[id] = password]

----------------------------------------------------------------------------
(* POST /api/auth/register: validateRegister, register *)

\* slip: only the presence of the email is checked
validateRegisterPresence(email, password) == email # ""

validateRegister(email, password) == isEmail(email) /\ Len(password) >= 6

\* generateToken(userId)
generateToken(userId, secret, t) == jwtSign(userId, secret, t)

MissingSecretError ==
    PlainError("Error", "JWT_SECRET is not defined in environment variables")

UserBody(doc, token) ==
    [success |-> TRUE, data |-> [user |-> toJSON(doc), token |-> token]]

RegisterInputs ==
    (RawEmails \X Passwords)
        \cup {<<BadEmail, "secret1">>, <<"a@x.com", ShortPassword>>,
              <<"", "secret1">>, <<"a@x.com", "">>}

\* request arrives, is validated, and User.findOne({ email }) resolves
RegisterFindOne(s, email, password) ==
    /\ CanStart(s)
    /\ nextId + Cardinality({x \in InFlight : reqs[x].pc = "create"}) <= MaxUsers
    /\ LET r == [NewReq("register", email, password, "", NoHeader)
                    EXCEPT !.hist = Hist(email, password, "")]
       IN Place(s,
            IF ~validateRegister(email, password)
            THEN Fail(r, RequestValidationError)
            ELSE IF findOneByEmail(store, email) # NoUser
            THEN Fail(r, ConflictError("User with this email already exists"))
            ELSE [r EXCEPT !.pc = "create"])
    /\ ops' = ops - 1
    /\ UNCHANGED <<store, nextId, now, env, conc, held, secretOf, changedAt, issued, consumed, vehicles>>

\* User.create({ email, password }) resolves, token is signed, 201 is sent
RegisterCreate(s, keep) ==
    /\ reqs[s].kind = "register" /\ reqs[s].pc = "create"
    /\ LET r == reqs[s]
           doc == preSave(newUser(nextId, r.email, r.password, "user", FALSE), TRUE)
           token == generateToken(doc._id, env.JWT_SECRET, now)
       IN IF emailTaken(store, doc.email)
          THEN /\ Place(s, Fail(r, DuplicateKeyError))
               /\ UNCHANGED <<store, nextId, held, secretOf, changedAt, issued, consumed>>
          ELSE /\ store' = store @@ (nextId :> doc)
               /\ nextId' = nextId + 1
               /\ secretOf' = secretOf @@ (nextId :> r.password)
               /\ issued' = issued @@ (nextId :> NoIssue)
               /\ consumed' = consumed @@ (nextId :> "")
               /\ changedAt' = changedAt @@ (nextId :> NoDate)
               /\ IF env.JWT_SECRET = ""
                  THEN /\ Place(s, Fail(r, MissingSecretError))
                       /\ UNCHANGED held
                  ELSE /\ Place(s, Respond(r, 201, UserBody(doc, token)))
                       /\ Keep(token, keep)
    /\ UNCHANGED <<now, env, ops, conc, vehicles>>

----------------------------------------------------------------------------
(* POST /api/auth/login: validateLogin, login *)

validateLogin(email, password) == email # "" /\ password # ""

Login(s, email, password, keep) ==
    /\ CanStart(s)
    /\ LET r == [NewReq("login", email, password, "", NoHeader)
                    EXCEPT !.hist = Hist(email, password, "")]
           found == findOneByEmail(store, email)
           token == generateToken(found[1]._id, env.JWT_SECRET, now)
       IN IF ~validateLogin(email, password)
          THEN /\ Place(s, Fail(r, RequestValidationError))
               /\ UNCHANGED held
          ELSE IF found = NoUser \/ ~comparePassword(found[1], password)
          THEN /\ Place(s, Fail(r, AuthenticationError("Invalid credentials")))
               /\ UNCHANGED held
          ELSE IF env.JWT_SECRET = ""
          THEN /\ Place(s, Fail(r, MissingSecretError))
               /\ UNCHANGED held
          ELSE /\ Place(s, Respond(r, 200, UserBody(found[1], token)))
               /\ Keep(token, keep)
    /\ ops' = ops - 1
    /\ UNCHANGED <<store, nextId, now, env, conc, secretOf, changedAt, issued, consumed, vehicles>>

----------------------------------------------------------------------------
(* GET /api/profile: authenticate, getProfile *)

Headers == {NoHeader} \cup (IF held = NoToken THEN {} ELSE {Bearer(held)})

\* a header with another scheme, and a token signed with a secret of the sender
MalformedHeader == [scheme |-> "Basic", token |-> NoToken]
ForgedHeader == Bearer(jwtSign(1, "forged", now))
AnyHeaders == Headers \cup {MalformedHeader, ForgedHeader}

\* history: what the request's header lacks to pass authenticate
authCause(header, st, secret, t) ==
    IF header = NoHeader THEN "noHeader"
    ELSE IF header.scheme # "Bearer" THEN "scheme"
    ELSE IF header.token.sig # secret THEN "signature"
    ELSE IF t >= header.token.exp THEN "expired"
    ELSE IF header.token.userId \notin DOMAIN st THEN "deleted"
    ELSE "ok"

\* the authenticate middleware of a protected route
Authenticate(s, kind, header, arg) ==
    /\ CanStart(s)
    /\ LET r == [NewReq(kind, "", "", "", header) EXCEPT !.arg = arg]
           a == authenticate(header, store, env.JWT_SECRET, now)
           h == [NoHist EXCEPT !.at = now,
                               !.cause = authCause(header, store, env.JWT_SECRET, now)]
       IN Place(s,
            IF a.status # 0 THEN Respond([r EXCEPT !.hist = h], a.status, a.body)
            ELSE [r EXCEPT !.pc = "handler", !.user = a.user,
                     !.hist = [h EXCEPT !.target = a.user[1]._id,
                                        !.secretMatch =
                                            secretOf[a.user[1]._id] = arg.password]])
    /\ ops' = ops - 1
    /\ UNCHANGED <<store, nextId, now, env, conc, held, secretOf, changedAt, issued, consumed, vehicles>>

UserNotFoundBody == [success |-> FALSE, error |-> "User not found"]

GetProfile(s) ==
    /\ reqs[s].kind = "getProfile" /\ reqs[s].pc = "handler"
    /\ LET r == reqs[s]
           found == findById(store, r.user[1]._id)
       IN Place(s,
            IF found = NoUser
            THEN Respond(r, 404, UserNotFoundBody)
            ELSE Respond(r, 200, [success |-> TRUE, data |-> [user |-> toJSON(found[1])]]))
    /\ UNCHANGED <<store, nextId, now, env, ops, conc, held, secretOf, changedAt, issued, consumed, vehicles>>

ProfileValidationBody == [success |-> FALSE, error |-> "Validation failed"]

\* PUT /api/profile: username is optional, 2 to 50 characters
validateUpdateProfile(arg) == arg.username = "" \/ Len(arg.username) >= 2

\* slip: every field of the body is assigned, role included
updateProfileAssignBody(doc, arg) ==
    LET named == IF arg.username # "" THEN [doc EXCEPT !.username = arg.username] ELSE doc
    IN IF arg.role # "" THEN [named EXCEPT !.role = arg.role] ELSE named

\* the assignments of updateProfile to the loaded document: of the body
\* only username (and the other profile fields) is read
updateProfileAssign(doc, arg) ==
    IF arg.username # "" THEN [doc EXCEPT !.username = arg.username] ELSE doc

\* validation, then User.findById resolves and the handler assigns
UpdateProfile(s) ==
    /\ reqs[s].kind = "updateProfile" /\ reqs[s].pc = "handler"
    /\ LET r == reqs[s]
           found == findById(store, r.user[1]._id)
       IN Place(s,
            IF ~validateUpdateProfile(r.arg) THEN Respond(r, 400, ProfileValidationBody)
            ELSE IF found = NoUser THEN Respond(r, 404, UserNotFoundBody)
            ELSE [r EXCEPT !.pc = "save", !.orig = found,
                           !.user = <<updateProfileAssign(found[1], r.arg)>>])
    /\ UNCHANGED <<store, nextId, now, env, ops, conc, held, secretOf, changedAt, issued, consumed, vehicles>>

\* POST /api/profile/emergency-contacts: name, relationship, phone not empty
validateEmergencyContact(arg) ==
    arg.name # "" /\ arg.relationship # "" /\ arg.phone # ""

AddEmergencyContact(s) ==
    /\ reqs[s].kind = "addEmergencyContact" /\ reqs[s].pc = "handler"
    /\ LET r == reqs[s]
           found == findById(store, r.user[1]._id)
           contact == [name |-> r.arg.name, relationship |-> r.arg.relationship,
                       phone |-> r.arg.phone]
       IN /\ found # NoUser => Len(found[1].emergencyContacts) < MaxContacts
          /\ Place(s,
               IF ~validateEmergencyContact(r.arg) THEN Respond(r, 400, ProfileValidationBody)
               ELSE IF found = NoUser THEN Respond(r, 404, UserNotFoundBody)
               ELSE [r EXCEPT !.pc = "save", !.orig = found,
                       !.user = <<[found[1] EXCEPT !.emergencyContacts = Append(@, contact)]>>])
    /\ UNCHANGED <<store, nextId, now, env, ops, conc, held, secretOf, changedAt, issued, consumed, vehicles>>

\* array.splice(index, 1), index counted from 0
splice(seq, index) ==
    [i \in 1..(Len(seq) - 1) |-> IF i <= index THEN seq[i] ELSE seq[i + 1]]

\* DELETE /api/profile/emergency-contacts/:index
RemoveEmergencyContact(s) ==
    /\ reqs[s].kind = "removeEmergencyContact" /\ reqs[s].pc = "handler"
    /\ LET r == reqs[s]
           found == findById(store, r.user[1]._id)
       IN Place(s,
            IF found = NoUser THEN Respond(r, 404, UserNotFoundBody)
            ELSE IF r.arg.index + 1 > Len(found[1].emergencyContacts)
            THEN Respond(r, 404, [success |-> FALSE, error |-> "Emergency contact not found"])
            ELSE [r EXCEPT !.pc = "save", !.orig = found,
                    !.user = <<[found[1] EXCEPT !.emergencyContacts = splice(@, r.arg.index)]>>])
    /\ UNCHANGED <<store, nextId, now, env, ops, conc, held, secretOf, changedAt, issued, consumed, vehicles>>

ProfileMessage(kind) ==
    IF kind = "updateProfile" THEN "Profile updated successfully"
    ELSE IF kind = "addEmergencyContact" THEN "Emergency contact added successfully"
    ELSE "Emergency contact removed successfully"

\* user.save() of the three profile writers resolves, 200 is sent with the
\* document the handler holds
ProfileSave(s) ==
    /\ reqs[s].kind \in {"updateProfile", "addEmergencyContact", "removeEmergencyContact"}
    /\ reqs[s].pc = "save"
    /\ LET r == reqs[s]
           doc == r.user[1]
           orig == r.orig[1]
       IN IF modifiedPaths(doc, orig) # {} /\ doc._id \notin DOMAIN store
          THEN /\ Place(s, Fail(r, DocumentNotFoundError))
               /\ UNCHANGED store
          ELSE /\ store' = saveUpdate(store, doc, orig)
               /\ Place(s, Respond(r, 200,
                    [success |-> TRUE, message |-> ProfileMessage(r.kind),
                     data |-> [user |-> toJSON(preSave(doc, isModified(doc, orig, "password")))]]))
    /\ UNCHANGED <<nextId, now, env, ops, conc, held, secretOf, changedAt, issued, consumed, vehicles>>

----------------------------------------------------------------------------
(* POST /api/auth/forgot-password: validateForgotPassword, forgotPassword *)

ForgotBody ==
    [success |-> TRUE,
     message |-> "If an account exists, a password reset code has been sent"]

\* request arrives, User.findOne({ email }) resolves and, for an existing
\* account, user.generateResetCode() draws the code and sets the two fields
ForgotFindOne(s, email, code) ==
    /\ CanStart(s)
    /\ LET r == [NewReq("forgotPassword", email, "", "", NoHeader)
                    EXCEPT !.hist = Hist(email, "", "")]
           found == findOneByEmail(store, email)
       IN Place(s,
            IF ~isEmail(email) THEN Fail(r, RequestValidationError)
            ELSE IF found = NoUser THEN Respond(r, 200, ForgotBody)
            ELSE [r EXCEPT !.pc = "save", !.orig = found, !.code = code,
                           !.user = <<generateResetCode(found[1], code, now)>>])
    /\ ops' = ops - 1
    /\ UNCHANGED <<store, nextId, now, env, conc, held, secretOf, changedAt, issued, consumed, vehicles>>

\* sendEmail: AppError('Failed to send email', 500) when the transport fails
MailError == AppError("AppError", "Failed to send email", 500)

\* user.save() resolves, then sendEmail resolves or throws
ForgotSave(s, mailOk) ==
    /\ reqs[s].kind = "forgotPassword" /\ reqs[s].pc = "save"
    /\ LET r == reqs[s]
           doc == r.user[1]
           orig == r.orig[1]
       IN IF modifiedPaths(doc, orig) # {} /\ doc._id \notin DOMAIN store
          THEN /\ Place(s, Fail(r, DocumentNotFoundError))
               /\ UNCHANGED <<store, issued, consumed>>
          ELSE /\ store' = saveUpdate(store, doc, orig)
               /\ issued' = [issued EXCEPT ![doc._id] =
                      [code |-> r.code, at |-> r.hist.at, prev |-> issued[doc._id].code]]
               /\ consumed' = [consumed EXCEPT ![doc._id] = ""]
               /\ Place(s, IF mailOk THEN Respond(r, 200, ForgotBody)
                           ELSE Fail(r, MailError))
    /\ UNCHANGED <<nextId, now, env, ops, conc, held, secretOf, changedAt, vehicles>>

----------------------------------------------------------------------------
(* POST /api/auth/verify-reset-code: validateVerifyCode, verifyResetCode *)

validateVerifyCode(email, code) == isEmail(email) /\ isSixDigits(code)

InvalidCodeBody == [success |-> FALSE, error |-> "Invalid or expired code"]
CodeFormatBody == [success |-> FALSE, error |-> "Invalid code format"]

\* slip: the account is looked up first and its absence is reported
verifyResetCodeTelling(st, email, code, t) ==
    IF ~isSixDigits(code)
    THEN [status |-> 400, body |-> CodeFormatBody]
    ELSE IF findOneByEmail(st, email) = NoUser
    THEN [status |-> 404, body |-> UserNotFoundBody]
    ELSE IF findOneByResetCode(st, email, sha256(code), t) = NoUser
    THEN [status |-> 400, body |-> InvalidCodeBody]
    ELSE [status |-> 200,
          body |-> [success |-> TRUE, message |-> "Code verified successfully"]]

\* the response of the verifyResetCode handler
verifyResetCode(st, email, code, t) ==
    IF ~isSixDigits(code)
    THEN [status |-> 400, body |-> CodeFormatBody]
    ELSE IF findOneByResetCode(st, email, sha256(code), t) = NoUser
    THEN [status |-> 400, body |-> InvalidCodeBody]
    ELSE [status |-> 200,
          body |-> [success |-> TRUE, message |-> "Code verified successfully"]]

VerifyResetCode(s, email, code) ==
    /\ CanStart(s)
    /\ LET r == [NewReq("verifyResetCode", email, "", code, NoHeader)
                    EXCEPT !.hist = Hist(email, "", code)]
           out == verifyResetCode(store, email, code, now)
       IN Place(s,
            IF ~validateVerifyCode(email, code) THEN Fail(r, RequestValidationError)
            ELSE Respond(r, out.status, out.body))
    /\ ops' = ops - 1
    /\ UNCHANGED <<store, nextId, now, env, conc, held, secretOf, changedAt, issued, consumed, vehicles>>

----------------------------------------------------------------------------
(* POST /api/auth/reset-password: validateResetPassword, resetPassword *)

validateResetPassword(email, code, newPassword) ==
    isEmail(email) /\ isSixDigits(code) /\ Len(newPassword) >= 6

WeakPasswordBody ==
    [success |-> FALSE, error |-> "Password must be at least 6 characters long"]

\* slip: the reset fields are left as they are
resetPasswordAssignKeepCode(doc, newPassword) ==
    [doc EXCEPT !.password = Plain(newPassword)]

\* slip: the code is cleared but the new password is not assigned
resetPasswordAssignKeepPassword(doc, newPassword) ==
    [doc EXCEPT !.resetPasswordCode = Undefined,
                !.resetPasswordExpires = NoDate]

\* slip: the reset also takes the verification back
resetPasswordAssignUnverify(doc, newPassword) ==
    [doc EXCEPT !.password = Plain(newPassword),
                !.resetPasswordCode = Undefined,
                !.resetPasswordExpires = NoDate,
                !.isEmailVerified = FALSE]

\* the assignments of resetPassword to the loaded document
resetPasswordAssign(doc, newPassword) ==
    [doc EXCEPT !.password = Plain(newPassword),
                !.resetPasswordCode = Undefined,
                !.resetPasswordExpires = NoDate]

\* request arrives, the lookup by email, digest and expiry resolves, and the
\* handler assigns the new password and clears the two reset fields
ResetFindOne(s, email, code, newPassword) ==
    /\ CanStart(s)
    /\ LET r == [NewReq("resetPassword", email, newPassword, code, NoHeader)
                    EXCEPT !.hist = Hist(email, newPassword, code)]
           found == findOneByResetCode(store, email, sha256(code), now)
       IN Place(s,
            IF ~validateResetPassword(email, code, newPassword)
            THEN Fail(r, RequestValidationError)
            ELSE IF Len(newPassword) < 6 THEN Respond(r, 400, WeakPasswordBody)
            ELSE IF ~isSixDigits(code) THEN Respond(r, 400, CodeFormatBody)
            ELSE IF found = NoUser THEN Respond(r, 400, InvalidCodeBody)
            ELSE [r EXCEPT !.pc = "save", !.orig = found,
                           !.user = <<resetPasswordAssign(found[1], newPassword)>>])
    /\ ops' = ops - 1
    /\ UNCHANGED <<store, nextId, now, env, conc, held, secretOf, changedAt, issued, consumed, vehicles>>

\* user.save() resolves (pre-save hook hashes the new password), 200 is sent
ResetSave(s) ==
    /\ reqs[s].kind = "resetPassword" /\ reqs[s].pc = "save"
    /\ LET r == reqs[s]
           doc == r.user[1]
           orig == r.orig[1]
       IN IF doc._id \notin DOMAIN store
          THEN /\ Place(s, Fail(r, DocumentNotFoundError))
               /\ UNCHANGED <<store, secretOf, changedAt, consumed>>
          ELSE /\ store' = saveUpdate(store, doc, orig)
               /\ secretOf' = [secretOf EXCEPT ![doc._id] = r.password]
               /\ changedAt' = [changedAt EXCEPT ![doc._id] = now]
               /\ consumed' = [consumed EXCEPT ![doc._id] = r.code]
               /\ Place(s, Respond(r, 200,
                    [success |-> TRUE, message |-> "Password has been reset successfully"]))
    /\ UNCHANGED <<nextId, now, env, ops, conc, held, issued, vehicles>>

----------------------------------------------------------------------------
(* POST /api/auth/change-password: authenticate, validateChangePassword,
   changePassword *)

validateChangePassword(currentPassword, newPassword) ==
    currentPassword # "" /\ Len(newPassword) >= 6

\* slip: the current password is not compared
changePasswordUnchecked(user, currentPassword, newPassword) ==
    IF newPassword = "" \/ Len(newPassword) < 6
    THEN [status |-> 400,
          body |-> [success |-> FALSE,
                    error |-> "New password must be at least 6 characters long"],
          user |-> user]
    ELSE [status |-> 0, body |-> NoBody,
          user |-> [user EXCEPT !.password = Plain(newPassword)]]

\* the handler up to user.save(): the response it sends, or status 0 and
\* the document with the new password assigned
changePassword(user, currentPassword, newPassword) ==
    IF newPassword = "" \/ Len(newPassword) < 6
    THEN [status |-> 400,
          body |-> [success |-> FALSE,
                    error |-> "New password must be at least 6 characters long"],
          user |-> user]
    ELSE IF ~comparePassword(user, currentPassword)
    THEN [status |-> 401,
          body |-> [success |-> FALSE, error |-> "Current password is incorrect"],
          user |-> user]
    ELSE [status |-> 0, body |-> NoBody,
          user |-> [user EXCEPT !.password = Plain(newPassword)]]

\* validation, then the handler compares against the document that
\* authenticate loaded and assigns the new password
ChangePassword(s) ==
    /\ reqs[s].kind = "changePassword" /\ reqs[s].pc = "handler"
    /\ LET r == reqs[s]
           out == changePassword(r.user[1], r.arg.password, r.arg.newPassword)
       IN Place(s,
            IF ~validateChangePassword(r.arg.password, r.arg.newPassword)
            THEN Fail(r, RequestValidationError)
            ELSE IF out.status # 0 THEN Respond(r, out.status, out.body)
            ELSE [r EXCEPT !.pc = "save", !.orig = r.user, !.user = <<out.user>>])
    /\ UNCHANGED <<store, nextId, now, env, ops, conc, held, secretOf, changedAt, issued, consumed, vehicles>>

\* user.save() resolves (pre-save hook hashes the new password), 200 is sent
ChangePasswordSave(s) ==
    /\ reqs[s].kind = "changePassword" /\ reqs[s].pc = "save"
    /\ LET r == reqs[s]
           doc == r.user[1]
           orig == r.orig[1]
       IN IF modifiedPaths(doc, orig) # {} /\ doc._id \notin DOMAIN store
          THEN /\ Place(s, Fail(r, DocumentNotFoundError))
               /\ UNCHANGED <<store, secretOf, changedAt>>
          ELSE /\ store' = saveUpdate(store, doc, orig)
               /\ secretOf' = [secretOf EXCEPT ![doc._id] = r.arg.newPassword]
               /\ changedAt' = [changedAt EXCEPT ![doc._id] = now]
               /\ Place(s, Respond(r, 200,
                    [success |-> TRUE, message |-> "Password changed successfully"]))
    /\ UNCHANGED <<nextId, now, env, ops, conc, held, issued, consumed, vehicles>>

----------------------------------------------------------------------------
(* DELETE /api/profile: authenticate, validation, deleteAccount *)

\* slip: the account is deleted without the password being compared
deleteAccountUnchecked(found, password) ==
    IF found = NoUser THEN [status |-> 404, err |-> NoError]
    ELSE [status |-> 0, err |-> NoError]

\* the handler up to User.findByIdAndDelete: 404, the error it throws, or
\* status 0 when it goes on to delete
deleteAccount(found, password) ==
    IF found = NoUser THEN [status |-> 404, err |-> NoError]
    ELSE IF ~comparePassword(found[1], password)
    THEN [status |-> 400, err |-> ValidationError("Invalid password")]
    ELSE [status |-> 0, err |-> NoError]

\* validation, then User.findById resolves and the password is compared
DeleteAccount(s) ==
    /\ reqs[s].kind = "deleteAccount" /\ reqs[s].pc = "handler"
    /\ LET r == reqs[s]
           found == findById(store, r.user[1]._id)
           out == deleteAccount(found, r.arg.password)
       IN Place(s,
            IF r.arg.password = "" THEN Respond(r, 400, ProfileValidationBody)
            ELSE IF out.status = 404 THEN Respond(r, 404, UserNotFoundBody)
            ELSE IF out.status # 0 THEN Fail(r, out.err)
            ELSE [r EXCEPT !.pc = "delete"])
    /\ UNCHANGED <<store, nextId, now, env, ops, conc, held, secretOf, changedAt, issued, consumed, vehicles>>

\* User.findByIdAndDelete(userId) resolves, 200 is sent
DeleteAccountDelete(s) ==
    /\ reqs[s].kind = "deleteAccount" /\ reqs[s].pc = "delete"
    /\ LET r == reqs[s]
           id == r.user[1]._id
       IN /\ store' = [i \in DOMAIN store \ {id} |-> store[i]]
          /\ Place(s, Respond(r, 200,
                [success |-> TRUE, message |-> "Account deleted successfully"]))
    /\ UNCHANGED <<nextId, now, env, ops, conc, held, secretOf, changedAt, issued, consumed, vehicles>>

----------------------------------------------------------------------------
(* POST /api/vehicles: authenticate, requireAdmin, createVehicle *)

\* slip: any authenticated account passes
requireAdminAnyRole(user) ==
    IF user = NoUser
    THEN [status |-> 401, body |-> [success |-> FALSE, error |-> "Authentication required"]]
    ELSE [status |-> 0, body |-> NoBody]

\* requireAdmin: the response it sends, status 0 when it calls next()
requireAdmin(user) ==
    IF user = NoUser
    THEN [status |-> 401, body |-> [success |-> FALSE, error |-> "Authentication required"]]
    ELSE IF user[1].role # "admin"
    THEN [status |-> 403, body |-> [success |-> FALSE, error |-> "Admin access required"]]
    ELSE [status |-> 0, body |-> NoBody]

\* what Mongoose throws when a required path of the vehicle is missing
VehicleValidationError == PlainError("ValidationError", "Vehicle validation failed")

\* requireAdmin, then Vehicle.create(req.body) resolves or rejects
CreateVehicle(s) ==
    /\ reqs[s].kind = "createVehicle" /\ reqs[s].pc = "handler"
    /\ LET r == reqs[s]
           gate == requireAdmin(r.user)
           vehicle == [_id |-> Cardinality(vehicles) + 1, name |-> r.arg.vehicle]
       IN IF gate.status # 0
          THEN /\ Place(s, Respond(r, gate.status, gate.body))
               /\ UNCHANGED vehicles
          ELSE IF r.arg.vehicle = ""
          THEN /\ Place(s, Fail(r, VehicleValidationError))
               /\ UNCHANGED vehicles
          ELSE /\ vehicles' = vehicles \cup {vehicle}
               /\ Place(s, Respond(r, 201,
                    [success |-> TRUE, message |-> "Vehicle created successfully",
                     data |-> [vehicle |-> vehicle]]))
    /\ UNCHANGED <<store, nextId, now, env, ops, conc, held, secretOf, changedAt, issued, consumed>>

----------------------------------------------------------------------------
(* app.use(errorHandler): a handler passes an error to next() *)

ThrownErrors ==
    {ValidationError("Invalid password"),
     ConflictError("User with this email already exists"),
     AuthenticationError("Invalid credentials"),
     MailError,
     AppError("AppError", "Not found", 404),
     RequestValidationError,
     VehicleValidationError,
     PlainError("CastError", "Cast to ObjectId failed"),
     DuplicateKeyError,
     DocumentNotFoundError,
     MissingSecretError,
     PlainError("TypeError", "Cannot read properties of undefined"),
     PlainError("Error", "")}

NextError(s, err) ==
    /\ CanStart(s)
    /\ Place(s, Fail(NewReq("error", "", "", "", NoHeader), err))
    /\ ops' = ops - 1
    /\ UNCHANGED <<store, nextId, now, env, conc, held, secretOf, changedAt, issued, consumed, vehicles>>

----------------------------------------------------------------------------
(* Specifications *)

VerifyInputs == (RawEmails \X Codes) \cup {<<"a@x.com", BadCode>>}
ResetInputs ==
    (RawEmails \X Codes \X {"secret2"})
        \cup {<<"a@x.com", BadCode, "secret2">>, <<"a@x.com", "100001", ShortPassword>>}

Register ==
    \/ \E s \in Slots, in \in RegisterInputs : RegisterFindOne(s, in[1], in[2])
    \/ \E s \in Slots, keep \in BOOLEAN : RegisterCreate(s, keep)

LoginInputs == (RawEmails \X Passwords) \cup {<<"", "secret1">>, <<"a@x.com", "">>}

DoLogin == \E s \in Slots, in \in LoginInputs, keep \in BOOLEAN : Login(s, in[1], in[2], keep)

\* the account of scripts/createAdmin.ts logs in
AdminLogin == \E s \in Slots, keep \in BOOLEAN : Login(s, AdminEmail, AdminPassword, keep)

AccountRequests ==
    {<<"getProfile", NoArg>>}
        \cup {<<"changePassword", [NoArg EXCEPT !.password = in[1], !.newPassword = in[2]]>> :
                in \in (Passwords \X Passwords)
                        \cup {<<"secret1", ShortPassword>>, <<"", "secret2">>}}
        \cup {<<"deleteAccount", [NoArg EXCEPT !.password = p]>> : p \in Passwords \cup {""}}

Account ==
    \/ \E s \in Slots, h \in AnyHeaders, q \in AccountRequests : Authenticate(s, q[1], h, q[2])
    \/ \E s \in Slots : GetProfile(s)
    \/ \E s \in Slots : ChangePassword(s)
    \/ \E s \in Slots : ChangePasswordSave(s)
    \/ \E s \in Slots : DeleteAccount(s)
    \/ \E s \in Slots : DeleteAccountDelete(s)

VehicleRequests ==
    {<<"createVehicle", [NoArg EXCEPT !.vehicle = v]>> : v \in {"", "car"}}

Vehicle ==
    \/ \E s \in Slots, h \in AnyHeaders, q \in VehicleRequests : Authenticate(s, q[1], h, q[2])
    \/ \E s \in Slots : CreateVehicle(s)

Errors == \E s \in Slots, err \in ThrownErrors : NextError(s, err)

ProfileReads == {<<"getProfile", NoArg>>}

ProfileWrites ==
    {<<"updateProfile", NoArg>>,
     <<"updateProfile", [NoArg EXCEPT !.username = "al"]>>,
     <<"updateProfile", [NoArg EXCEPT !.username = "a"]>>,
     <<"updateProfile", [NoArg EXCEPT !.username = "al", !.role = "admin"]>>,
     <<"addEmergencyContact", [NoArg EXCEPT !.name = "n", !.relationship = "r", !.phone = "p"]>>,
     <<"addEmergencyContact", [NoArg EXCEPT !.name = "n", !.relationship = "r"]>>,
     <<"removeEmergencyContact", NoArg>>,
     <<"removeEmergencyContact", [NoArg EXCEPT !.index = 1]>>}

Profile ==
    \/ \E s \in Slots, h \in Headers, q \in ProfileReads : Authenticate(s, q[1], h, q[2])
    \/ \E s \in Slots : GetProfile(s)

ProfileWrite ==
    \/ \E s \in Slots, h \in Headers, q \in ProfileWrites : Authenticate(s, q[1], h, q[2])
    \/ \E s \in Slots : UpdateProfile(s)
    \/ \E s \in Slots : AddEmergencyContact(s)
    \/ \E s \in Slots : RemoveEmergencyContact(s)
    \/ \E s \in Slots : ProfileSave(s)

Forgot ==
    \/ \E s \in Slots, e \in RawEmails \cup {BadEmail}, c \in Codes : ForgotFindOne(s, e, c)
    \/ \E s \in Slots, ok \in BOOLEAN : ForgotSave(s, ok)

Verify == \E s \in Slots, in \in VerifyInputs : VerifyResetCode(s, in[1], in[2])

Reset ==
    \/ \E s \in Slots, in \in ResetInputs : ResetFindOne(s, in[1], in[2], in[3])
    \/ \E s \in Slots : ResetSave(s)

\* process.env of the deployment: .env as the README describes it
ConfiguredEnv ==
    [PORT |-> "5000", MONGODB_URI |-> "mongodb://localhost/hireease",
     JWT_SECRET |-> "s1", NODE_ENV |-> "production"]

NoSecretEnv == [ConfiguredEnv EXCEPT !.JWT_SECRET = ""]
NoPortEnv == [ConfiguredEnv EXCEPT !.PORT = ""]
RunModes == {"development", "production", "test", ""}

InitWith(c, n, e) ==
    /\ now = 0
    /\ env = e
    /\ reqs = [s \in Slots |-> IdleReq]
    /\ done = IdleReq
    /\ ops = n
    /\ conc = c
    /\ held = NoToken
    /\ vehicles = {}

InitBase(c, n) ==
    /\ now = 0
    /\ env = ConfiguredEnv
    /\ reqs = [s \in Slots |-> IdleReq]
    /\ done = IdleReq
    /\ ops = n
    /\ conc = c
    /\ held = NoToken
    /\ vehicles = {}

\* the process starts on an empty users collection
InitEmpty ==
    /\ store = << >>
    /\ nextId = 1
    /\ secretOf = << >>
    /\ issued = << >>
    /\ consumed = << >>
    /\ changedAt = << >>

\* the process starts on the collection that register("a@x.com", "secret1")
\* leaves behind (SeedReached: SpecAuth reaches this store)
SeedUser == preSave(newUser(1, "a@x.com", "secret1", "user", FALSE), TRUE)

InitSeeded ==
    /\ store = (1 :> SeedUser)
    /\ nextId = 2
    /\ secretOf = (1 :> "secret1")
    /\ issued = (1 :> NoIssue)
    /\ consumed = (1 :> "")
    /\ changedAt = (1 :> NoDate)

Init == InitBase(MaxReq, MaxOps) /\ InitEmpty

NextAuth == Tick \/ Register \/ DoLogin \/ Profile
NextProfile == NextAuth \/ ProfileWrite
NextReset == Tick \/ Forgot \/ Verify \/ Reset
Next == NextProfile \/ NextReset

\* requests interleave at their store accesses
Spec == Init /\ [][Next]_vars
SpecAuth == Init /\ [][NextAuth]_vars
InitReset == InitBase(MaxReq, MaxOps) /\ InitSeeded
SpecReset == InitReset /\ [][NextReset]_vars

\* one request at a time
InitAuthSeq == InitBase(1, MaxOps) /\ InitEmpty
SpecAuthSeq == InitAuthSeq /\ [][NextProfile]_vars
InitResetSeq == InitBase(1, MaxOps) /\ InitSeeded
SpecResetSeq == InitResetSeq /\ [][NextReset]_vars

\* the collection after scripts/createAdmin.ts and one register
AdminUser ==
    preSave([newUser(1, AdminEmail, AdminPassword, "admin", TRUE)
                EXCEPT !.username = "Admin"], TRUE)
SecondUser == preSave(newUser(2, "a@x.com", "secret1", "user", FALSE), TRUE)

InitAdminSeeded ==
    /\ store = (1 :> AdminUser) @@ (2 :> SecondUser)
    /\ nextId = 3
    /\ secretOf = (1 :> AdminPassword) @@ (2 :> "secret1")
    /\ issued = (1 :> NoIssue) @@ (2 :> NoIssue)
    /\ consumed = (1 :> "") @@ (2 :> "")
    /\ changedAt = (1 :> NoDate) @@ (2 :> NoDate)

\* the account routes, one request at a time
NextAccount == Tick \/ DoLogin \/ Account
InitAccountSeq == InitBase(1, MaxOps) /\ InitSeeded
SpecAccountSeq == InitAccountSeq /\ [][NextAccount]_vars
InitAccount == InitBase(MaxReq, MaxOps) /\ InitSeeded
SpecAccount == InitAccount /\ [][NextAccount]_vars

\* the vehicle routes
NextVehicle == Tick \/ DoLogin \/ AdminLogin \/ Vehicle
InitVehicle == InitBase(MaxReq, MaxOps) /\ InitAdminSeeded
SpecVehicle == InitVehicle /\ [][NextVehicle]_vars

\* the error handler in every run mode
NextErrors == Tick \/ Errors
InitErrors == (\E m \in RunModes : InitWith(1, MaxOps, [ConfiguredEnv EXCEPT !.NODE_ENV = m])) /\ InitEmpty
SpecErrors == InitErrors /\ [][NextErrors]_vars

\* the auth routes of a process started with any of the environments
InitAnyEnv ==
    (\E e \in {ConfiguredEnv, NoSecretEnv, NoPortEnv} : InitWith(MaxReq, MaxOps, e)) /\ InitEmpty
SpecAnyEnv == InitAnyEnv /\ [][NextAuth]_vars

\* the password routes on the collection after scripts/createAdmin.ts and
\* one register: both accounts log in, change and reset their password
SecretEmails == {AdminEmail, "a@x.com"}

ChangeRequests ==
    {<<"changePassword", [NoArg EXCEPT !.password = p, !.newPassword = "secret2"]>> :
        p \in {AdminPassword, "secret1"}}

Change ==
    \/ \E s \in Slots, h \in Headers, q \in ChangeRequests : Authenticate(s, q[1], h, q[2])
    \/ \E s \in Slots : ChangePassword(s)
    \/ \E s \in Slots : ChangePasswordSave(s)

SecretReset ==
    \/ \E s \in Slots, e \in SecretEmails : ForgotFindOne(s, e, "100001")
    \/ \E s \in Slots : ForgotSave(s, TRUE)
    \/ \E s \in Slots, e \in SecretEmails : ResetFindOne(s, e, "100001", "secret2")
    \/ \E s \in Slots : ResetSave(s)

Secret == Change \/ SecretReset

SecretLogin ==
    \E s \in Slots, p \in Passwords, keep \in BOOLEAN : Login(s, "a@x.com", p, keep)

NextSecret == Tick \/ SecretLogin \/ AdminLogin \/ Secret
InitSecret == InitBase(MaxReq, MaxOps + 1) /\ InitAdminSeeded
SpecSecret == InitSecret /\ [][NextSecret]_vars

\* the routes that save the account, on the collection after one register:
\* the three profile writers and forgot-password save without assigning a
\* password, change-password assigns one
NextSave == Tick \/ SecretLogin \/ ProfileWrite \/ Forgot \/ Change
InitSave == InitBase(MaxReq, MaxOps) /\ InitSeeded
SpecSave == InitSave /\ [][NextSave]_vars

\* the three variants of the User model, each on a collection with one
\* account: a code or token is drawn and saved, the account is serialised
SetResetCode(code) ==
    /\ ops > 0
    /\ schemaOf(store[1]) \in {"profile", "numericCode"}
    /\ store' = [store EXCEPT ![1] = generateResetCode(@, code, now)]
    /\ ops' = ops - 1
    /\ UNCHANGED <<nextId, now, env, reqs, done, conc, held, secretOf, changedAt, issued, consumed, vehicles>>

SetVerificationCode(code) ==
    /\ ops > 0
    /\ schemaOf(store[1]) \in {"profile", "numericCode"}
    /\ store' = [store EXCEPT ![1] = generateEmailVerificationCode(@, code, now)]
    /\ ops' = ops - 1
    /\ UNCHANGED <<nextId, now, env, reqs, done, conc, held, secretOf, changedAt, issued, consumed, vehicles>>

SetResetToken(token) ==
    /\ ops > 0
    /\ schemaOf(store[1]) = "token"
    /\ store' = [store EXCEPT ![1] = generateResetToken(@, token, now)]
    /\ ops' = ops - 1
    /\ UNCHANGED <<nextId, now, env, reqs, done, conc, held, secretOf, changedAt, issued, consumed, vehicles>>

\* res.json({ success: true, data: { user } })
Serialize ==
    /\ ops > 0
    /\ done' = Respond([IdleReq EXCEPT !.kind = "toJSON"], 200,
                    [success |-> TRUE, data |-> [user |-> toJSONOf(store[1])]])
    /\ ops' = ops - 1
    /\ UNCHANGED <<store, nextId, now, env, reqs, conc, held, secretOf, changedAt, issued, consumed, vehicles>>

NextToJSON ==
    \/ Tick
    \/ \E c \in Codes : SetResetCode(c)
    \/ \E c \in Codes : SetVerificationCode(c)
    \/ \E k \in ResetTokens : SetResetToken(k)
    \/ Serialize

Variants ==
    {preSave(newUser(1, "a@x.com", "secret1", "user", FALSE), TRUE),
     preSave(newUserNumericCode(1, "a@x.com", "secret1"), TRUE),
     preSave(newUserToken(1, "a@x.com", "secret1"), TRUE)}

InitToJSON ==
    /\ InitBase(1, MaxOps)
    /\ store \in [{1} -> Variants]
    /\ nextId = 2
    /\ secretOf = (1 :> "secret1")
    /\ issued = (1 :> NoIssue)
    /\ consumed = (1 :> "")
    /\ changedAt = (1 :> NoDate)

SpecToJSON == InitToJSON /\ [][NextToJSON]_vars

\* forgot-password requests interleaved, and the verifier
NextForgot == Tick \/ Forgot \/ Verify
InitForgot == InitBase(MaxReq, MaxOps) /\ InitSeeded
SpecForgot == InitForgot /\ [][NextForgot]_vars

\* forgot-password, reset-password and login, one request at a time
NextRoundTrip == Tick \/ Forgot \/ Reset \/ SecretLogin
InitRoundTrip == InitBase(1, MaxOps) /\ InitSeeded
SpecRoundTrip == InitRoundTrip /\ [][NextRoundTrip]_vars

\* every route, one request at a time, on the collection that
\* scripts/createAdmin.ts leaves behind
InitAdminOnly ==
    /\ store = (1 :> AdminUser)
    /\ nextId = 2
    /\ secretOf = (1 :> AdminPassword)
    /\ issued = (1 :> NoIssue)
    /\ consumed = (1 :> "")
    /\ changedAt = (1 :> NoDate)

NextRoles ==
    \/ Tick \/ Register \/ SecretLogin \/ AdminLogin
    \/ ProfileWrite \/ Secret \/ Vehicle
InitRoles == InitBase(1, MaxOps) /\ InitAdminOnly
SpecRoles == InitRoles /\ [][NextRoles]_vars

\* sessions and secrets: login, the account routes, forgot-password and
\* reset-password, one request at a time
NextSession == Tick \/ SecretLogin \/ Account \/ SecretReset
InitSession == InitBase(1, MaxOps + 1) /\ InitSeeded
SpecSession == InitSession /\ [][NextSession]_vars

SeedReached ==
    /\ store = (1 :> SeedUser) /\ nextId = 2 /\ secretOf = (1 :> "secret1")
    /\ issued = (1 :> NoIssue) /\ consumed = (1 :> "") /\ changedAt = (1 :> NoDate)
    /\ InFlight = {}
----------------------------------------------------------------------------
(* Properties *)

Emails == {lowercase(e) : e \in RawEmails}
AccountsOf(e) == idsByEmail(store, lowercase(e))
ReturnsUser == "data" \in DOMAIN done.body /\ "user" \in DOMAIN done.body.data

\* C1: with requests taken one at a time, a well-formed register for an email
\* that has no account is answered 201, one for an email that already has an
\* account is answered 409, and either way exactly one account with that
\* email is in the store afterwards.
C1_SecondRegisterConflicts ==
    (done.kind = "register" /\ validateRegister(done.email, done.password)) =>
        /\ done.status = (IF done.hist.target = 0 THEN 201 ELSE 409)
        /\ Cardinality(AccountsOf(done.email)) = 1

C1_Witness ==
    /\ done.kind = "register" /\ done.status = 409 /\ done.hist.target # 0
    /\ Cardinality(AccountsOf(done.email)) = 1

\* C2: when register requests interleave, every well-formed register is
\* answered 201 or 409 and no email ever has more than one account.
C2_RaceLoserGetsConflict ==
    /\ \A e \in Emails : Cardinality(AccountsOf(e)) <= 1
    /\ (done.kind = "register" /\ validateRegister(done.email, done.password))
            => done.status \in {201, 409}

\* C3: a login that presents the email of a registered account and that
\* account's secret is answered 200 with a token which authenticate accepts
\* (while the token is unexpired and the account exists) and resolves to the
\* account that was registered.
C3_RegisterThenLogin ==
    (done.kind = "login" /\ done.hist.secretMatch) =>
        /\ done.status = 200
        /\ LET token == done.body.data.token
               a == authenticate(Bearer(token), store, env.JWT_SECRET, now)
           IN /\ token.userId = done.hist.target
              /\ done.body.data.user.email = lowercase(done.email)
              /\ (now < token.exp /\ token.userId \in DOMAIN store) =>
                    (a.status = 0 /\ a.user[1]._id = done.hist.target)

C3_Witness ==
    /\ done.kind = "login" /\ done.hist.secretMatch /\ done.status = 200
    /\ done.email = "A@x.com"
    /\ authenticate(Bearer(done.body.data.token), store, env.JWT_SECRET, now).status = 0

\* C4: no response body that carries a user object has a password field in it.
C4_NoPasswordInBody ==
    ReturnsUser => "password" \notin DOMAIN done.body.data.user

C4_Witness ==
    /\ ReturnsUser /\ done.kind = "addEmergencyContact" /\ done.status = 200
    /\ "password" \notin DOMAIN done.body.data.user
    /\ "password" \in DOMAIN store[done.hist.target]

Presents == done.kind \in {"verifyResetCode", "resetPassword"}
WellFormed ==
    /\ validateVerifyCode(done.email, done.code)
    /\ done.kind = "resetPassword" => Len(done.password) >= 6
Accepted ==
    \/ done.kind = "verifyResetCode" /\ done.status = 200
    \/ done.kind = "resetPassword" /\ done.status = 200
Rejected == done.status = 400 /\ done.body = InvalidCodeBody
LiveCodes(id) ==
    {c \in Codes : findOneByResetCode(store, store[id].email, sha256(c), now) # NoUser}

\* C5: a code that a successful reset-password has used is spent: the stored
\* digest and expiry are cleared, and while no forgot-password has persisted
\* a new code, a verify-reset-code or reset-password request that presents
\* the spent code is answered 400.
C5_ResetCodeSingleUse ==
    /\ \A id \in DOMAIN store : consumed[id] # "" =>
            /\ store[id].resetPasswordCode = Undefined
            /\ store[id].resetPasswordExpires = NoDate
            /\ LiveCodes(id) = {}
    /\ (Presents /\ done.hist.replay) => done.status = 400

C5_Witness ==
    /\ Presents /\ done.hist.replay /\ done.status = 400
    /\ done.hist.age >= 0 /\ done.hist.age < ResetWindow

C7_ExpiredCodeRejected ==
    (Presents /\ WellFormed /\ done.hist.correct) =>
        /\ done.hist.age >= ResetWindow =>
                /\ Rejected
                /\ ~done.hist.replay => done.hist.cause = "expired"
        /\ (done.hist.age < ResetWindow /\ ~done.hist.replay) => Accepted
        /\ comparePassword(store[done.hist.target], secretOf[done.hist.target])
        /\ done.status # 200 =>
                store[done.hist.target].password = bcryptHash(Plain(secretOf[done.hist.target]))

C7_Witness ==
    /\ done.kind = "resetPassword" /\ WellFormed /\ done.hist.correct
    /\ done.hist.age >= ResetWindow /\ done.hist.cause = "expired"
    /\ Rejected
    /\ ~comparePassword(store[done.hist.target], done.password)

\* C8: with requests taken one at a time, at most one code per account is
\* live; once forgot-password has issued c1 and then a different c2, a
\* request presenting c1 is answered 400 and c2 is accepted inside its window.
C8_OneLiveCode ==
    /\ \A id \in DOMAIN store : Cardinality(LiveCodes(id)) <= 1
    /\ (Presents /\ WellFormed /\ done.hist.stale) => Rejected
    /\ (Presents /\ WellFormed /\ Accepted) => done.hist.correct
    /\ (Presents /\ WellFormed /\ done.hist.correct
            /\ issued[done.hist.target].prev \notin {"", done.code}
            /\ done.hist.age < ResetWindow /\ ~done.hist.replay) => Accepted

C8_Witness ==
    /\ done.kind = "verifyResetCode" /\ done.hist.stale /\ Rejected
    /\ LiveCodes(done.hist.target) = {issued[done.hist.target].code}

\* C9: every well-formed forgot-password request is answered 200 with the
\* same body, whether or not the email has an account.
C9_ForgotAlwaysSame ==
    (done.kind = "forgotPassword" /\ isEmail(done.email)) =>
        (done.status = 200 /\ done.body = ForgotBody)

\* C10: a well-formed verify-reset-code or reset-password request is answered
\* with the same status and body whether the email has no account, the code
\* does not match the stored digest, or the matching code has expired.
C10_UniformRejection ==
    (Presents /\ WellFormed /\ done.hist.cause \in {"noAccount", "wrongCode", "expired"})
        => Rejected

C10_Witness ==
    /\ done.kind = "verifyResetCode" /\ WellFormed
    /\ done.hist.cause = "expired" /\ Rejected

PassedAuth == done.hist.target # 0
SecretsMatchStore ==
    \A id \in DOMAIN store : store[id].password = bcryptHash(Plain(secretOf[id]))

C11_Case ==
    /\ done.kind = "changePassword" /\ PassedAuth
    /\ validateChangePassword(done.arg.password, done.arg.newPassword)

C11_State ==
    /\ SecretsMatchStore
    /\ (C11_Case /\ ~done.hist.secretMatch) =>
            /\ done.status = 401
            /\ comparePassword(store[done.hist.target], secretOf[done.hist.target])
            /\ secretOf[done.hist.target] # done.arg.password
    /\ (C11_Case /\ done.hist.secretMatch) =>
            /\ done.status = 200
            /\ comparePassword(store[done.hist.target], done.arg.newPassword)
            /\ done.arg.newPassword # done.arg.password =>
                    ~comparePassword(store[done.hist.target], done.arg.password)
    /\ (done.kind = "login" /\ validateLogin(done.email, done.password)
            /\ done.hist.target # 0) =>
            (done.status = 200 <=> done.password = secretOf[done.hist.target])

C11_Step ==
    (done' # done /\ done'.kind = "changePassword" /\ done'.status # 200) =>
        (store' = store /\ secretOf' = secretOf)

\* C11: with requests taken one at a time, an authenticated change-password
\* whose currentPassword is not the account's secret is answered 401 and
\* changes nothing in the store (the old password still logs in); one whose
\* currentPassword is the secret and whose newPassword has 6 characters or
\* more is answered 200, and from then on login succeeds with newPassword
\* and with no other password.
C11_ChangePassword == []C11_State /\ [][C11_Step]_vars

C11_Witness ==
    /\ C11_Case /\ ~done.hist.secretMatch /\ done.status = 401
    /\ done.arg.password = "secret1" /\ secretOf[done.hist.target] = "secret2"
    /\ comparePassword(store[done.hist.target], "secret2")

ProtectedKinds ==
    {"getProfile", "updateProfile", "addEmergencyContact", "removeEmergencyContact",
     "changePassword", "deleteAccount", "createVehicle"}

C12_State ==
    /\ \A s \in InFlight : reqs[s].kind \in ProtectedKinds =>
            (reqs[s].hist.cause = "ok" /\ reqs[s].user # NoUser)
    /\ done.kind \in ProtectedKinds =>
            /\ PassedAuth <=> done.hist.cause = "ok"
            /\ PassedAuth =>
                    /\ done.header.scheme = "Bearer"
                    /\ done.header.token.sig = env.JWT_SECRET
                    /\ done.hist.at < done.header.token.exp
                    /\ done.header.token.userId = done.hist.target
            /\ ~PassedAuth =>
                    /\ done.status = 401
                    /\ done.hist.cause \in {"noHeader", "scheme", "signature", "expired", "deleted"}

C12_Step ==
    (done' # done /\ done'.kind \in ProtectedKinds /\ done'.hist.cause # "ok") =>
        (store' = store /\ vehicles' = vehicles /\ secretOf' = secretOf)

\* C12: authenticate hands a request to the protected operation exactly when
\* its header is 'Bearer <token>', the token carries the signature of the
\* process secret, the time is before the token's expiry and the account the
\* token names is in the store; every other request is answered 401 and
\* neither the store nor the catalog changes.
C12_OnlyValidTokensPass == []C12_State /\ [][C12_Step]_vars

C12_Witness ==
    /\ done.kind \in ProtectedKinds /\ done.hist.cause = "deleted" /\ done.status = 401
    /\ done.header.token.sig = env.JWT_SECRET /\ done.hist.at < done.header.token.exp
    /\ done.header.token.userId \notin DOMAIN store

\* C13: every request that authenticate rejects is answered like a request
\* without Authorization header: status 401 and the same body, whichever of
\* missing header, other scheme, bad signature, expired token or deleted
\* account is the cause.
C13_UniformUnauthorized ==
    (done.kind \in ProtectedKinds /\ ~PassedAuth) =>
        /\ done.status = 401
        /\ done.body = authenticate(NoHeader, store, env.JWT_SECRET, now).body

C14_State ==
    done.kind = "createVehicle" =>
        /\ ~PassedAuth => done.status = 401
        /\ (PassedAuth /\ store[done.hist.target].role # "admin") => done.status = 403
        /\ done.status = 201 =>
                /\ PassedAuth /\ store[done.hist.target].role = "admin"
                /\ done.body.data.vehicle \in vehicles
        /\ (PassedAuth /\ store[done.hist.target].role = "admin" /\ done.arg.vehicle # "")
                => done.status = 201

C14_Step ==
    /\ vehicles' # vehicles =>
            /\ done' # done /\ done'.kind = "createVehicle" /\ done'.status = 201
            /\ store[done'.hist.target].role = "admin"
    /\ (done' # done /\ done'.kind = "createVehicle" /\ done'.status \in {401, 403})
            => vehicles' = vehicles

C15_Case == done.kind = "deleteAccount" /\ PassedAuth /\ done.arg.password # ""

C15_State ==
    /\ (C15_Case /\ ~done.hist.secretMatch) =>
            /\ done.status = 400
            /\ findById(store, done.hist.target) # NoUser
            /\ comparePassword(store[done.hist.target], secretOf[done.hist.target])
    /\ (C15_Case /\ done.hist.secretMatch) =>
            /\ done.status = 200
            /\ findById(store, done.hist.target) = NoUser
            /\ findOneByEmail(store, SeedUser.email) = NoUser
    /\ (done.kind = "login" /\ findOneByEmail(store, done.email) = NoUser) =>
            (done.status \in {400, 401} /\ "data" \notin DOMAIN done.body)
    /\ (held # NoToken /\ held.userId \notin DOMAIN store) =>
            authenticate(Bearer(held), store, env.JWT_SECRET, now).status = 401
    /\ (done.kind \in ProtectedKinds /\ done.hist.cause = "deleted") => done.status = 401

C15_Step ==
    (done' # done /\ done'.kind = "deleteAccount" /\ done'.status # 200) => store' = store

\* C15: with requests taken one at a time, DELETE /profile with a password
\* that is not the authenticated account's secret is answered 400 and leaves
\* the store as it is, the account still being found; with the account's
\* secret it is answered 200 and the account is gone: login with its email
\* is refused and the tokens issued for it are answered 401.
C15_DeleteNeedsPassword == []C15_State /\ [][C15_Step]_vars

C15_Witness ==
    /\ C15_Case /\ done.hist.secretMatch /\ done.status = 200
    /\ store = << >>
    /\ held.userId = done.hist.target /\ now < held.exp
    /\ authenticate(Bearer(held), store, env.JWT_SECRET, now).status = 401

\* C16: a login with the correct password for an account whose
\* isEmailVerified flag is false is answered 403 without token, and every
\* login answered 200 is for an account whose flag is true.
C16_UnverifiedLoginRefused ==
    (done.kind = "login" /\ done.hist.target \in DOMAIN store) =>
        /\ (done.hist.secretMatch /\ ~store[done.hist.target].isEmailVerified) =>
                (done.status = 403 /\ "data" \notin DOMAIN done.body)
        /\ done.status = 200 => store[done.hist.target].isEmailVerified

\* C17: a process whose environment has no JWT_SECRET serves nothing: no
\* request is in flight or answered and the store stays as it was at startup.
C17_NoSecretNoService ==
    env.JWT_SECRET = "" => (done = IdleReq /\ InFlight = {} /\ store = << >>)

Unknown(err) ==
    /\ err.class \notin AppErrorClasses
    /\ ~err.validationErrors
    /\ err.name \notin {"ValidationError", "CastError"}

\* C18: the error handler answers ValidationError with 400, ConflictError
\* with 409, AuthenticationError with 401 and any other AppError with its
\* statusCode; an error of no known kind is answered 500 with the message
\* 'Internal Server Error'; the body has a stack exactly when NODE_ENV is
\* 'development'.
C18_ErrorMapping ==
    done.err # NoError =>
        /\ done.err.class = "ValidationError" => done.status = 400
        /\ done.err.class = "ConflictError" => done.status = 409
        /\ done.err.class = "AuthenticationError" => done.status = 401
        /\ done.err.class = "AppError" => done.status = done.err.statusCode
        /\ Unknown(done.err) =>
                /\ done.status = 500
                /\ done.body.error.message = "Internal Server Error"
        /\ "stack" \in DOMAIN done.body <=> env.NODE_ENV = "development"

MalformedRegister ==
    \/ done.email = "" \/ done.email = BadEmail
    \/ done.password = "" \/ Len(done.password) < 6

C19_State ==
    /\ \A s \in InFlight : reqs[s].kind = "register" =>
            (reqs[s].email \in RawEmails /\ Len(reqs[s].password) >= 6)
    /\ \A id \in DOMAIN store : store[id].email \in Emails \cup {AdminEmail}
    /\ (done.kind = "register" /\ MalformedRegister) => done.status = 400
    /\ (done.kind = "login" /\ (done.email = "" \/ done.password = "")) =>
            (done.status = 400 /\ "data" \notin DOMAIN done.body)

C19_Step ==
    /\ (done' # done /\ done'.kind = "register" /\ done'.status = 400) =>
            (store' = store /\ nextId' = nextId)
    /\ (done' # done /\ done'.kind = "login" /\ done'.status = 400) => held' = held

\* C19: a register request whose email is missing or malformed, or whose
\* password is missing or shorter than 6 characters, is answered 400 and no
\* account is created; a login request without email or without password is
\* answered 400 and no token is issued.
C19_MalformedRejected == []C19_State /\ [][C19_Step]_vars

C19_Witness ==
    /\ done.kind = "register" /\ done.password = ShortPassword /\ done.status = 400
    /\ idsByEmail(store, lowercase(done.email)) = {} /\ store # << >>

InvalidCredentialsBody ==
    [success |-> FALSE, error |-> [message |-> "Invalid credentials", statusCode |-> 401]]

C20_State ==
    (done.kind = "login" /\ done.email # "" /\ done.password # ""
        /\ (done.hist.target = 0 \/ ~done.hist.secretMatch)) =>
            /\ done.status = 401
            /\ done.body = InvalidCredentialsBody

C20_Step ==
    (done' # done /\ done'.kind = "login") =>
        /\ store' = store
        /\ done'.status = 401 => held' = held

\* C20: a login for an email without account and a login with a password
\* that is not the account's secret are both answered 401 with the same
\* 'Invalid credentials' body; no token is issued and the store is unchanged.
C20_InvalidCredentials == []C20_State /\ [][C20_Step]_vars

C20_Witness ==
    /\ done.kind = "login" /\ done.hist.target # 0 /\ ~done.hist.secretMatch
    /\ done.status = 401 /\ done.body = InvalidCredentialsBody
    /\ authenticate(NoHeader, store, env.JWT_SECRET, now).status = 401
VerificationAxis == {"email", "role", "isEmailVerified",
                     "emailVerificationCode", "emailVerificationExpires"}

C21_Step ==
    \A id \in DOMAIN store \cap DOMAIN store' :
        /\ \A p \in VerificationAxis : store'[id][p] = store[id][p]
        /\ store[id].isEmailVerified => store'[id].isEmailVerified

\* C21: no step of change-password or reset-password (nor of login or
\* forgot-password) changes the email, the role, the isEmailVerified flag or
\* the pending verification code and expiry of an account, so an account
\* whose flag is true keeps it.
C21_VerificationUntouched == [][C21_Step]_vars

C21_Witness ==
    /\ done.kind = "changePassword" /\ done.status = 200 /\ done.hist.target = 1
    /\ consumed[1] = "100001" /\ changedAt[1] # NoDate
    /\ comparePassword(store[1], "secret2")
    /\ store[1].isEmailVerified /\ store[1].role = "admin" /\ store[1].email = AdminEmail

SaveOnlyKinds ==
    {"forgotPassword", "updateProfile", "addEmergencyContact", "removeEmergencyContact"}

C22_State ==
    /\ SecretsMatchStore
    /\ (done.kind = "login" /\ done.hist.target # 0 /\ done.hist.secretMatch) =>
            done.status = 200

C22_Step ==
    (done' # done /\ done'.kind \in SaveOnlyKinds) =>
        \A id \in DOMAIN store :
            /\ store'[id].password = store[id].password
            /\ comparePassword(store'[id], secretOf[id])

\* C22: the step that answers a forgot-password, update-profile or
\* emergency-contact request, its save included, leaves the stored password
\* hash of every account as it was, also when the document it saves was
\* loaded before a change-password replaced the hash; the stored hash is
\* always the account's secret hashed once, and the secret logs in.
C22_SaveKeepsHash == []C22_State /\ [][C22_Step]_vars

C22_Witness ==
    /\ done.kind = "login" /\ done.status = 200 /\ done.hist.secretMatch
    /\ store[1].username = "al" /\ store[1].password = SeedUser.password
    /\ ops = 0

DigestPaths == {"emailVerificationCode", "resetPasswordCode", "resetPasswordToken"}

\* C23: a user object in a response body has no password and carries no
\* digest of a pending code or token (email verification code, reset code,
\* reset token), whichever variant of the User model built the document.
C23_NoDigestInBody ==
    ReturnsUser =>
        /\ "password" \notin DOMAIN done.body.data.user
        /\ \A p \in DigestPaths \cap DOMAIN done.body.data.user :
                done.body.data.user[p] = Undefined

\* C24: when forgot-password requests interleave, the stored reset digest
\* and expiry are both those of the request whose save came last: the digest
\* is that of its code, the expiry is its drawing time plus the window, and
\* the verifier accepts that code and no other while the window lasts.
C24_LastWriteWins ==
    \A id \in DOMAIN store : issued[id].code # "" =>
        /\ store[id].resetPasswordCode = sha256(issued[id].code)
        /\ store[id].resetPasswordExpires = issued[id].at + ResetWindow
        /\ LiveCodes(id) =
                IF now < issued[id].at + ResetWindow THEN {issued[id].code} ELSE {}

C25_State ==
    /\ (done.kind = "resetPassword" /\ WellFormed /\ done.hist.correct
            /\ ~done.hist.replay /\ done.hist.age < ResetWindow) => done.status = 200
    /\ \A id \in DOMAIN store :
            (changedAt[id] # NoDate /\ consumed[id] # "") =>
                /\ store[id].password = bcryptHash(Plain(secretOf[id]))
                /\ store[id].resetPasswordCode = Undefined
                /\ store[id].resetPasswordExpires = NoDate
    /\ (done.kind = "login" /\ done.hist.target # 0) =>
            (done.status = 200 <=> done.password = secretOf[done.hist.target])

C25_Step ==
    (done' # done /\ done'.kind = "resetPassword" /\ done'.status = 200) =>
        LET id == done'.hist.target
        IN /\ comparePassword(store'[id], done'.password)
           /\ done'.password # secretOf[id] => ~comparePassword(store'[id], secretOf[id])
           /\ store'[id].resetPasswordCode = Undefined
           /\ store'[id].resetPasswordExpires = NoDate
           /\ store[id].resetPasswordCode = sha256(done'.code)
           /\ store[id].password = bcryptHash(Plain(secretOf[id]))
           /\ secretOf'[id] = done'.password

\* C25: with requests taken one at a time, reset-password with the code
\* forgot-password issued last, inside the window and with a newPassword of
\* 6 characters or more, is answered 200; the one step that stores the new
\* password also clears the reset digest and expiry, so the store never
\* holds the new password beside a live code; from then on login is
\* answered 200 with newPassword and refused with the old password.
C25_ResetRoundTrip == []C25_State /\ [][C25_Step]_vars

C25_Witness ==
    /\ done.kind = "login" /\ done.status = 200 /\ done.password = "secret2"
    /\ consumed[1] # "" /\ changedAt[1] # NoDate
    /\ ~comparePassword(store[1], "secret1")
    /\ LiveCodes(1) = {}

C26_Step ==
    (done' # done /\ done'.kind = "resetPassword" /\ done'.status = 200) =>
        consumed[done'.hist.target] # done'.code

\* C26: when reset-password requests presenting the same code interleave,
\* a request is answered 200 only if no other reset-password has used the
\* code since it was issued: at most one request changes the password with
\* one issued code.
C26_SingleUseInterleaved == [][C26_Step]_vars

C27_Step ==
    (done' # done /\ done'.kind = "register") =>
        /\ done'.status # 201 => (store' = store /\ nextId' = nextId)
        /\ store' # store =>
                /\ done'.status = 201
                /\ done'.body.data.token.userId = nextId
                /\ store'[nextId].email = lowercase(done'.email)

\* C27: the step that answers a register request with an error status
\* creates no account, and the step that creates an account answers 201
\* with a token for the account it created.
C27_RegisterAllOrNothing == [][C27_Step]_vars

C28_Step ==
    (done' # done /\ done'.kind = "forgotPassword" /\ done'.status >= 400) =>
        \A id \in DOMAIN store :
            /\ store'[id].resetPasswordCode = store[id].resetPasswordCode
            /\ store'[id].resetPasswordExpires = store[id].resetPasswordExpires
            /\ LiveCodes(id)' = LiveCodes(id)

\* C28: the step that answers a forgot-password request with an error
\* status leaves the reset digest and expiry of every account as they were:
\* the code that was live before is still the live one, and no code that
\* was not delivered becomes live.
C28_FailedForgotKeepsCode == [][C28_Step]_vars

C29_State ==
    /\ \A id \in DOMAIN store : store[id].role = "admin" => store[id].email = AdminEmail
    /\ \A id \in DOMAIN store : id # 1 => store[id].role = "user"
    /\ (done.kind = "createVehicle" /\ done.status = 201) => done.hist.target = 1

C29_Step ==
    /\ \A id \in DOMAIN store \cap DOMAIN store' : store'[id].role = store[id].role
    /\ \A id \in DOMAIN store' \ DOMAIN store :
            /\ store'[id].role = "user"
            /\ done'.kind = "register" /\ done' # done

\* C29: starting from the collection that holds the account of the
\* createAdmin script, every account that register creates has role 'user',
\* no step of a register, login, profile, emergency-contact, password or
\* vehicle request changes the role of an account (a role sent in the body
\* of update-profile is not read), and the only admin is the account of the
\* script.
C29_NoEscalation == []C29_State /\ [][C29_Step]_vars

C29_Witness ==
    /\ done.kind = "updateProfile" /\ done.status = 200 /\ done.arg.role = "admin"
    /\ done.hist.target = 2 /\ store[2].role = "user" /\ store[2].username = "al"
    /\ store[1].role = "admin"

IssuedAt(token) == token.exp - TokenLifetime

C30_State ==
    /\ held # NoToken =>
            (authenticate(Bearer(held), store, env.JWT_SECRET, now).status = 0
                <=> (now < held.exp /\ held.userId \in DOMAIN store))
    /\ (done.kind \in ProtectedKinds /\ done.header.scheme = "Bearer"
            /\ done.header.token.sig = env.JWT_SECRET) =>
            /\ PassedAuth <=> done.hist.cause \notin {"expired", "deleted"}
            /\ PassedAuth => done.status # 401 \/ done.kind = "changePassword"

\* C30: the authenticate middleware accepts a token of the process exactly
\* while the time is before the token's expiry and its account is in the
\* store; a change-password or reset-password that replaced the secret
\* after the token was issued does not make it refuse the token.
C30_SessionsSurviveChange == []C30_State

C30_Witness ==
    /\ done.kind = "getProfile" /\ done.status = 200
    /\ consumed[done.hist.target] # ""
    /\ changedAt[done.hist.target] > IssuedAt(done.header.token)
    /\ done.hist.at >= changedAt[done.hist.target]
    /\ ~comparePassword(store[done.hist.target], "secret1")
====
